---- MODULE Spec2Model ----
(***************************************************************************)
(* Model of mlflow_export_import/model/export_model.py: the ModelExporter  *)
(* constructor and export_model / _export_model.                           *)
(*                                                                         *)
(* A Python str is a sequence of one-character strings, so that lower(),   *)
(* split(",") and the string comparison used by sort() are computed.       *)
(* The registry client, the run exporter and the filesystem are external:  *)
(* every call to one of them is a step that either succeeds or raises one  *)
(* of the exception kinds below.  The variable trace records, in program   *)
(* order, every collaborator call with its outcome, every append to the    *)
(* manifest and to output_versions, and every print.                       *)
(* The description and tags of a model version are carried through         *)
(* unchanged by the code and are left out of the records, and so are the   *)
(* paths (output_dir, opath, model.json), which no step branches on.  The  *)
(* registry holds every version of a model once.  The exceptions modelled  *)
(* are subclasses of Exception.                                            *)
(***************************************************************************)
EXTENDS Integers, Sequences, FiniteSets, TLC

VARIABLES
    pc,                \* position of the program
    args,              \* arguments of the pending constructor call
    self_stages,       \* self.stages
    self_versions,     \* self.versions
    self_export_run,   \* self.export_run
    model_name,        \* argument of export_model
    versions,          \* local: the registry's answer
    i,                 \* local: 1-based position of the for loop in versions
    manifest,          \* local: manifest
    output_versions,   \* local: output_versions
    exported_versions, \* local: exported_versions
    run,               \* local: the run fetched for the current version
    model_json,        \* documents written to {output_dir}/model.json
    result,            \* what export_model gave back to its caller
    trace,             \* calls, appends and prints so far, in program order
    raised             \* how many calls made for a version have raised so far

vars == <<pc, args, self_stages, self_versions, self_export_run, model_name,
          versions, i, manifest, output_versions, exported_versions, run,
          model_json, result, trace, raised>>

(***************************************************************************)
(* Bounds.                                                                 *)
(***************************************************************************)
\* Largest number of versions the registry returns for one model.
MaxVersions == 3

\* Largest number of calls made for a version (export_run, get_run,
\* get_experiment) that raise during one export_model.
MaxRaised == 2

(***************************************************************************)
(* Strings.                                                                *)
(***************************************************************************)
LowerMap ==
    "A" :> "a" @@ "B" :> "b" @@ "C" :> "c" @@ "D" :> "d" @@ "E" :> "e" @@
    "F" :> "f" @@ "G" :> "g" @@ "H" :> "h" @@ "I" :> "i" @@ "J" :> "j" @@
    "K" :> "k" @@ "L" :> "l" @@ "M" :> "m" @@ "N" :> "n" @@ "O" :> "o" @@
    "P" :> "p" @@ "Q" :> "q" @@ "R" :> "r" @@ "S" :> "s" @@ "T" :> "t" @@
    "U" :> "u" @@ "V" :> "v" @@ "W" :> "w" @@ "X" :> "x" @@ "Y" :> "y" @@
    "Z" :> "z"

\* Code points of the characters the model uses.
Ord ==
    "," :> 44 @@
    "0" :> 48 @@ "1" :> 49 @@ "2" :> 50 @@ "3" :> 51 @@ "4" :> 52 @@
    "5" :> 53 @@ "6" :> 54 @@ "7" :> 55 @@ "8" :> 56 @@ "9" :> 57 @@
    "A" :> 65 @@ "B" :> 66 @@ "C" :> 67 @@ "D" :> 68 @@ "E" :> 69 @@
    "F" :> 70 @@ "G" :> 71 @@ "H" :> 72 @@ "I" :> 73 @@ "J" :> 74 @@
    "K" :> 75 @@ "L" :> 76 @@ "M" :> 77 @@ "N" :> 78 @@ "O" :> 79 @@
    "P" :> 80 @@ "Q" :> 81 @@ "R" :> 82 @@ "S" :> 83 @@ "T" :> 84 @@
    "U" :> 85 @@ "V" :> 86 @@ "W" :> 87 @@ "X" :> 88 @@ "Y" :> 89 @@
    "Z" :> 90 @@
    "a" :> 97 @@ "b" :> 98 @@ "c" :> 99 @@ "d" :> 100 @@ "e" :> 101 @@
    "f" :> 102 @@ "g" :> 103 @@ "h" :> 104 @@ "i" :> 105 @@ "j" :> 106 @@
    "k" :> 107 @@ "l" :> 108 @@ "m" :> 109 @@ "n" :> 110 @@ "o" :> 111 @@
    "p" :> 112 @@ "q" :> 113 @@ "r" :> 114 @@ "s" :> 115 @@ "t" :> 116 @@
    "u" :> 117 @@ "v" :> 118 @@ "w" :> 119 @@ "x" :> 120 @@ "y" :> 121 @@
    "z" :> 122

\* str.lower()
Lower(s) ==
    [k \in 1..Len(s) |-> IF s[k] \in DOMAIN LowerMap THEN LowerMap[s[k]] ELSE s[k]]

\* s < t on Python strings: code point by code point, a proper prefix first.
RECURSIVE StrLess(_, _)
StrLess(s, t) ==
    IF t = <<>> THEN FALSE
    ELSE IF s = <<>> THEN TRUE
    ELSE IF Ord[Head(s)] # Ord[Head(t)] THEN Ord[Head(s)] < Ord[Head(t)]
    ELSE StrLess(Tail(s), Tail(t))

\* s.split(","): one more piece than there are commas, empty pieces kept.
RECURSIVE SplitFrom(_, _, _)
SplitFrom(s, cur, acc) ==
    IF s = <<>> THEN Append(acc, cur)
    ELSE IF Head(s) = "," THEN SplitFrom(Tail(s), <<>>, Append(acc, cur))
    ELSE SplitFrom(Tail(s), Append(cur, Head(s)), acc)

Split(s) == SplitFrom(s, <<>>, <<>>)

\* x in lst, for a Python list
InList(x, lst) == \E k \in 1..Len(lst) : lst[k] = x

(***************************************************************************)
(* Strings the model uses.                                                 *)
(***************************************************************************)
sProduction == <<"P", "r", "o", "d", "u", "c", "t", "i", "o", "n">>
sArchived   == <<"A", "r", "c", "h", "i", "v", "e", "d">>
sNone       == <<"N", "o", "n", "e">>
sproduction == <<"p", "r", "o", "d", "u", "c", "t", "i", "o", "n">>
sarchived   == <<"a", "r", "c", "h", "i", "v", "e", "d">>
sproductionArchived ==
    <<"p", "r", "o", "d", "u", "c", "t", "i", "o", "n", ",",
      "A", "r", "c", "h", "i", "v", "e", "d">>
v1  == <<"1">>
v2  == <<"2">>
v3  == <<"3">>
v10 == <<"1", "0">>

(***************************************************************************)
(* The constructor.                                                        *)
(***************************************************************************)
\* The stages argument: None, a list of str, or a comma-separated str.
StagesArgs ==
    { [kind |-> "none", list |-> <<>>, str |-> <<>>] }
    \cup { [kind |-> "list", list |-> l, str |-> <<>>] :
             l \in { <<>>, <<sProduction>>, <<sproduction, sArchived>> } }
    \cup { [kind |-> "str", list |-> <<>>, str |-> s] :
             s \in { <<>>, sProduction, sproductionArchived } }

\* The versions argument: None or a list of str.
VersionsArgs ==
    { [none |-> TRUE, list |-> <<>>] }
    \cup { [none |-> FALSE, list |-> l] : l \in { <<>>, <<v2>>, <<v1, v10>> } }

NoArgs ==
    [given |-> FALSE,
     stages |-> [kind |-> "none", list |-> <<>>, str |-> <<>>],
     versions |-> [none |-> TRUE, list |-> <<>>],
     export_run |-> TRUE]

\* _normalize_stages
NormalizeStages(stages) ==
    IF stages.kind = "none" THEN <<>>
    ELSE LET lst == IF stages.kind = "str" THEN Split(stages.str) ELSE stages.list
         IN  [k \in 1..Len(lst) |-> Lower(lst[k])]

\* versions if versions else []
NormalizeVersions(vs) == IF vs.none \/ vs.list = <<>> THEN <<>> ELSE vs.list

\* Mutant: "or" in place of "and".
BothSetEither(stages, vs) == Len(stages) > 0 \/ Len(vs) > 0

\* The test that makes __init__ raise MlflowExportImportException.
BothSet(stages, vs) == Len(stages) > 0 /\ Len(vs) > 0

NoResult == [status |-> "none", success |-> FALSE, model_name |-> ""]

Init ==
    /\ pc = "new"
    /\ args \in { [given |-> TRUE, stages |-> s, versions |-> v, export_run |-> e] :
                    s \in StagesArgs, v \in VersionsArgs, e \in BOOLEAN }
    /\ self_stages = <<>>
    /\ self_versions = <<>>
    /\ self_export_run = TRUE
    /\ model_name = ""
    /\ versions = <<>>
    /\ i = 1
    /\ manifest = <<>>
    /\ output_versions = <<>>
    /\ exported_versions = 0
    /\ run = ""
    /\ model_json = <<>>
    /\ result = NoResult
    /\ trace = <<>>
    /\ raised = 0

\* ModelExporter.__init__.  The arguments of a call that gave an exporter are
\* gone; those of a call that raised stay with the error.
Construct ==
    /\ pc = "new"
    /\ self_stages' = NormalizeStages(args.stages)
    /\ self_export_run' = args.export_run
    /\ self_versions' = NormalizeVersions(args.versions)
    /\ pc' = IF BothSet(self_stages', self_versions') THEN "ctor_error" ELSE "ready"
    /\ args' = IF pc' = "ctor_error" THEN args ELSE NoArgs
    /\ UNCHANGED <<model_name, versions, i, manifest, output_versions,
                   exported_versions, run, model_json, result, trace>>
    /\ UNCHANGED raised

(***************************************************************************)
(* The external world: the registry's versions of a model, the runs and    *)
(* the experiments of the tracking server, and the exceptions a call to a  *)
(* collaborator can raise.                                                 *)
(***************************************************************************)
\* "M" is a registered model with versions, "N" a name without any version.
ModelNames == {"M", "N"}

\* The versions a model can have in the registry (vr.version, vr.current_stage,
\* vr.run_id).
Catalogue ==
    { [version |-> v1,  current_stage |-> sProduction, run_id |-> "r1"],
      [version |-> v2,  current_stage |-> sArchived,   run_id |-> "r2"],
      [version |-> v10, current_stage |-> sProduction, run_id |-> "r10"],
      [version |-> v3,  current_stage |-> sNone,       run_id |-> "r3"] }

\* What search_model_versions can return: the versions of the model, each once,
\* in any order.
Responses(name) ==
    IF name = "M"
    THEN UNION { { s \in [1..n -> Catalogue] :
                     \A a, b \in 1..n : a # b => s[a].version # s[b].version } :
                 n \in 0..MaxVersions }
    ELSE { <<>> }

\* run.info of the run with a given id.
RunInfo(run_id) ==
    [artifact_uri |-> <<"uri", run_id>>,
     experiment_id |-> IF run_id \in {"r1", "r2"} THEN "e1" ELSE "e2"]

\* experiment.name of the experiment with a given id.
ExperimentName(experiment_id) == IF experiment_id = "e1" THEN "exp-one" ELSE "exp-two"

\* The exceptions a call can raise: a RestException whose text holds
\* "RESOURCE_DOES_NOT_EXIST: Run", any other RestException, and an exception
\* that is no RestException (such as the MlflowException of a failed request).
ExcKinds == {"RestRunNotFound", "RestOther", "NonRest"}

Outcomes == {"ok"} \cup ExcKinds

\* What a call made for a version can do.
LoopOutcomes == IF raised < MaxRaised THEN Outcomes ELSE {"ok"}

ExcClassOf ==
    [RestRunNotFound |-> "RestException",
     RestOther       |-> "RestException",
     NonRest         |-> "MlflowException"]

\* The classes an exception class derives from, itself included.
Bases ==
    [RestException   |-> {"RestException", "MlflowException", "Exception"},
     MlflowException |-> {"MlflowException", "Exception"}]

IsInstance(kind, cls) == cls \in Bases[ExcClassOf[kind]]

\* "RESOURCE_DOES_NOT_EXIST: Run" in str(e)
SaysRunMissing(kind) == kind = "RestRunNotFound"

\* Mutant: only the "run does not exist" error is caught inside the loop.
InnerCatchesOnlyRunMissing(kind) ==
    IsInstance(kind, "RestException") /\ SaysRunMissing(kind)

\* except mlflow.exceptions.RestException, inside the loop
InnerCatches(kind) == IsInstance(kind, "RestException")

\* Mutant: export_model catches RestException only.
OuterCatchesRestOnly(kind) == IsInstance(kind, "RestException")

\* except Exception, in export_model
OuterCatches(kind) == IsInstance(kind, "Exception")

(***************************************************************************)
(* export_model and _export_model.                                         *)
(***************************************************************************)
NoVersion == <<>>

\* An entry of trace: a print or an append (n: the count a print reports) ...
Ev(op, v, out, n) == [op |-> op, v |-> v, out |-> out, n |-> n, arg |-> ""]

\* ... or a call made for version vr with argument arg, and its outcome.
EvCall(op, vr, arg, out) == [op |-> op, v |-> vr.version, out |-> out, n |-> 0, arg |-> arg]

\* The filters at the head of the loop body: does the loop go on with vr?
\* (PassesStagesCaseSensitive is the mutant without lower().)
PassesStagesCaseSensitive(vr) ==
    ~ (Len(self_stages) > 0 /\ ~ InList(vr.current_stage, self_stages))

PassesStages(vr) ==
    ~ (Len(self_stages) > 0 /\ ~ InList(Lower(vr.current_stage), self_stages))

PassesVersions(vr) ==
    ~ (Len(self_versions) > 0 /\ ~ InList(vr.version, self_versions))

Selected(vr) == PassesStages(vr) /\ PassesVersions(vr)

\* dct of the manifest
ManifestRecord(vr) ==
    [version |-> vr.version, stage |-> vr.current_stage, run_id |-> vr.run_id]

\* dct of output_versions
ExportedVersion(vr, info) ==
    [version |-> vr.version, current_stage |-> vr.current_stage, run_id |-> vr.run_id,
     run_artifact_uri |-> info.artifact_uri,
     experiment_name |-> ExperimentName(info.experiment_id)]

\* int(s) for a string of digits
RECURSIVE ToInt(_)
ToInt(s) == IF s = <<>> THEN 0 ELSE 10 * ToInt(SubSeq(s, 1, Len(s) - 1)) + (Ord[s[Len(s)]] - Ord["0"])

\* Mutant: the versions are compared as numbers.
KeyLessNumeric(a, b) == ToInt(a.version) < ToInt(b.version)

\* key=lambda x: x["version"], compared as str
KeyLess(a, b) == StrLess(a.version, b.version)

\* Insert x into the sorted list s after every element that is not greater.
RECURSIVE Insert(_, _)
Insert(x, s) ==
    IF s = <<>> THEN <<x>>
    ELSE IF KeyLess(x, Head(s)) THEN <<x>> \o s
    ELSE <<Head(s)>> \o Insert(x, Tail(s))

\* list.sort(key=..., reverse=False): stable, ascending by key
RECURSIVE Sort(_)
Sort(s) == IF s = <<>> THEN <<>> ELSE Insert(s[Len(s)], Sort(SubSeq(s, 1, Len(s) - 1)))

\* Mutant: num_src_versions counts the versions that passed the filters.
DocumentCountsManifest ==
    [registered_model |-> [name |-> model_name, latest_versions |-> output_versions],
     export_info |-> [num_target_stages |-> Len(self_stages),
                      num_target_versions |-> Len(self_versions),
                      num_src_versions |-> Len(manifest),
                      num_dst_versions |-> Len(output_versions)]]

\* The document handed to write_json_file.
Document ==
    [registered_model |-> [name |-> model_name, latest_versions |-> output_versions],
     export_info |-> [num_target_stages |-> Len(self_stages),
                      num_target_versions |-> Len(self_versions),
                      num_src_versions |-> Len(versions),
                      num_dst_versions |-> Len(output_versions)]]

Returned(ok) == [status |-> "returned", success |-> ok, model_name |-> model_name]

Raised == [status |-> "raised", success |-> FALSE, model_name |-> model_name]

\* An exception of the given kind leaves _export_model; tr is the trace so far.
Escape(kind, tr) ==
    /\ pc' = "done"
    /\ IF OuterCatches(kind)
       THEN /\ trace' = Append(tr, Ev("print_error", NoVersion, kind, 0))
            /\ result' = Returned(FALSE)
       ELSE /\ trace' = tr
            /\ result' = Raised

\* Mutant: the loop body has no try of its own.
RaiseInLoopUncaught(kind, tr) ==
    /\ Escape(kind, tr)
    /\ UNCHANGED i

\* Mutant: a caught exception ends the loop (break) instead of going on.
RaiseInLoopBreak(kind, tr) ==
    IF InnerCatches(kind)
    THEN /\ trace' = Append(tr, Ev(IF SaysRunMissing(kind) THEN "print_warning"
                                   ELSE "print_traceback",
                                   versions[i].version, kind, 0))
         /\ i' = Len(versions) + 1
         /\ pc' = "loop"
         /\ UNCHANGED result
    ELSE /\ Escape(kind, tr)
         /\ UNCHANGED i

\* An exception of the given kind is raised inside the try of the loop body.
RaiseInLoop(kind, tr) ==
    IF InnerCatches(kind)
    THEN /\ trace' = Append(tr, Ev(IF SaysRunMissing(kind) THEN "print_warning"
                                   ELSE "print_traceback",
                                   versions[i].version, kind, 0))
         /\ i' = i + 1
         /\ pc' = "loop"
         /\ UNCHANGED result
    ELSE /\ Escape(kind, tr)
         /\ UNCHANGED i

\* Mutant: the number of versions found is not printed.
FoundReportMissing(n) == << >>

\* print(f"Found {len(versions)} versions for model '{model_name}'")
FoundReport(n) == << Ev("print_found", NoVersion, "ok", n) >>

\* Mutant: the export_run flag is ignored.
FirstStepInTryAlwaysExports == "export_run"

\* if self.export_run: the first call inside the try
FirstStepInTry == IF self_export_run THEN "export_run" ELSE "get_run"

\* export_model is called on a constructed exporter.
ExportModel ==
    /\ pc = "ready"
    /\ \E name \in ModelNames : model_name' = name
    /\ pc' = "mkdirs"
    /\ UNCHANGED <<args, self_stages, self_versions, self_export_run, versions, i,
                   manifest, output_versions, exported_versions, run, model_json,
                   result, trace>>
    /\ UNCHANGED raised

\* fs = get_filesystem(output_dir); fs.mkdirs(output_dir); output_versions = []
Mkdirs ==
    /\ pc = "mkdirs"
    /\ \E out \in Outcomes :
         LET tr == Append(trace, Ev("mkdirs", NoVersion, out, 0))
         IN  IF out = "ok"
             THEN /\ trace' = tr
                  /\ output_versions' = <<>>
                  /\ pc' = "search"
                  /\ UNCHANGED result
             ELSE /\ Escape(out, tr)
                  /\ UNCHANGED output_versions
    /\ UNCHANGED <<args, self_stages, self_versions, self_export_run, model_name,
                   versions, i, manifest, exported_versions, run, model_json>>
    /\ UNCHANGED raised

\* versions = search_model_versions(...); print Found; manifest = [];
\* exported_versions = 0
SearchModelVersions ==
    /\ pc = "search"
    /\ \/ \E r \in Responses(model_name) :
            /\ versions' = r
            /\ trace' = Append(trace, Ev("search_model_versions", NoVersion, "ok", 0))
                            \o FoundReport(Len(r))
            /\ manifest' = <<>>
            /\ exported_versions' = 0
            /\ i' = 1
            /\ pc' = "loop"
            /\ UNCHANGED result
       \/ \E out \in ExcKinds :
            /\ Escape(out, Append(trace, Ev("search_model_versions", NoVersion, out, 0)))
            /\ UNCHANGED <<versions, manifest, exported_versions, i>>
    /\ UNCHANGED <<args, self_stages, self_versions, self_export_run, model_name,
                   output_versions, run, model_json>>
    /\ UNCHANGED raised

\* The loop takes a version that a filter rejects: continue.
LoopSkip ==
    /\ pc = "loop"
    /\ i <= Len(versions)
    /\ ~ Selected(versions[i])
    /\ i' = i + 1
    /\ UNCHANGED <<pc, args, self_stages, self_versions, self_export_run, model_name,
                   versions, manifest, output_versions, exported_versions, run,
                   model_json, result, trace>>
    /\ UNCHANGED raised

\* The loop takes a version that passes the filters: print Exporting,
\* manifest.append(dct), enter the try.
LoopSelect ==
    /\ pc = "loop"
    /\ i <= Len(versions)
    /\ Selected(versions[i])
    /\ manifest' = Append(manifest, ManifestRecord(versions[i]))
    /\ trace' = trace \o << Ev("print_exporting", versions[i].version, "ok", 0),
                            Ev("manifest_append", versions[i].version, "ok", 0) >>
    /\ pc' = FirstStepInTry
    /\ UNCHANGED <<args, self_stages, self_versions, self_export_run, model_name,
                   versions, i, output_versions, exported_versions, run, model_json,
                   result>>
    /\ UNCHANGED raised

\* self.run_exporter.export_run(run_id, opath)
ExportRun ==
    /\ pc = "export_run"
    /\ \E out \in LoopOutcomes :
         LET tr == Append(trace, EvCall("export_run", versions[i], versions[i].run_id, out))
         IN  IF out = "ok"
             THEN /\ UNCHANGED raised
                  /\ trace' = tr
                  /\ pc' = "get_run"
                  /\ UNCHANGED <<i, result>>
             ELSE /\ RaiseInLoop(out, tr)
                  /\ raised' = raised + 1
    /\ UNCHANGED <<args, self_stages, self_versions, self_export_run, model_name,
                   versions, manifest, output_versions, exported_versions, run,
                   model_json>>

\* run = self.mlflow_client.get_run(run_id)
GetRun ==
    /\ pc = "get_run"
    /\ \E out \in LoopOutcomes :
         LET tr == Append(trace, EvCall("get_run", versions[i], versions[i].run_id, out))
         IN  IF out = "ok"
             THEN /\ UNCHANGED raised
                  /\ trace' = tr
                  /\ run' = versions[i].run_id
                  /\ pc' = "get_experiment"
                  /\ UNCHANGED <<i, result>>
             ELSE /\ RaiseInLoop(out, tr)
                  /\ raised' = raised + 1
                  /\ UNCHANGED run
    /\ UNCHANGED <<args, self_stages, self_versions, self_export_run, model_name,
                   versions, manifest, output_versions, exported_versions, model_json>>

\* experiment = mlflow.get_experiment(...); output_versions.append(dct);
\* exported_versions += 1
GetExperiment ==
    /\ pc = "get_experiment"
    /\ \E out \in LoopOutcomes :
         LET tr == Append(trace, EvCall("get_experiment", versions[i],
                                     RunInfo(run).experiment_id, out))
         IN  IF out = "ok"
             THEN /\ UNCHANGED raised
                  /\ trace' = Append(tr, Ev("output_append", versions[i].version, "ok", 0))
                  /\ output_versions' =
                        Append(output_versions, ExportedVersion(versions[i], RunInfo(run)))
                  /\ exported_versions' = exported_versions + 1
                  /\ i' = i + 1
                  /\ pc' = "loop"
                  /\ UNCHANGED result
             ELSE /\ RaiseInLoop(out, tr)
                  /\ raised' = raised + 1
                  /\ UNCHANGED <<output_versions, exported_versions>>
    /\ run' = ""
    /\ UNCHANGED <<args, self_stages, self_versions, self_export_run, model_name,
                   versions, manifest, model_json>>

\* The loop is over: output_versions.sort(...)
LoopExit ==
    /\ pc = "loop"
    /\ i > Len(versions)
    /\ output_versions' = Sort(output_versions)
    /\ pc' = "get_registered_model"
    /\ UNCHANGED <<args, self_stages, self_versions, self_export_run, model_name,
                   versions, i, manifest, exported_versions, run, model_json, result,
                   trace>>
    /\ UNCHANGED raised

\* get_registered_model, its conversion to JSON, the export_info, print Exported
GetRegisteredModel ==
    /\ pc = "get_registered_model"
    /\ \E out \in Outcomes :
         LET tr == Append(trace, Ev("get_registered_model", NoVersion, out, 0))
         IN  IF out = "ok"
             THEN /\ trace' = Append(tr, Ev("print_exported", NoVersion, "ok",
                                            exported_versions))
                  /\ pc' = "write"
                  /\ UNCHANGED result
             ELSE Escape(out, tr)
    /\ UNCHANGED <<args, self_stages, self_versions, self_export_run, model_name,
                   versions, i, manifest, output_versions, exported_versions, run,
                   model_json>>
    /\ UNCHANGED raised

\* utils.write_json_file(fs, path, model); return manifest; return True, model_name
WriteJson ==
    /\ pc = "write"
    /\ \E out \in Outcomes :
         LET tr == Append(trace, Ev("write_json_file", NoVersion, out, 0))
         IN  IF out = "ok"
             THEN /\ trace' = tr
                  /\ model_json' = Append(model_json, Document)
                  /\ result' = Returned(TRUE)
                  /\ pc' = "done"
             ELSE /\ Escape(out, tr)
                  /\ UNCHANGED model_json
    /\ UNCHANGED <<args, self_stages, self_versions, self_export_run, model_name,
                   versions, i, manifest, output_versions, exported_versions, run>>
    /\ UNCHANGED raised

Next ==
    \/ Construct
    \/ ExportModel
    \/ Mkdirs
    \/ SearchModelVersions
    \/ LoopSkip
    \/ LoopSelect
    \/ ExportRun
    \/ GetRun
    \/ GetExperiment
    \/ LoopExit
    \/ GetRegisteredModel
    \/ WriteJson

Spec == Init /\ [][Next]_vars

(***************************************************************************)
(* Vocabulary of the properties.                                           *)
(***************************************************************************)
Idx == 1..Len(trace)

PerVersionOps == {"export_run", "get_run", "get_experiment"}

TopLevelOps == {"mkdirs", "search_model_versions", "get_registered_model",
                "write_json_file"}

FailedCall(k) == trace[k].op \in PerVersionOps \cup TopLevelOps /\ trace[k].out # "ok"

ReturnedTrue == [status |-> "returned", success |-> TRUE, model_name |-> model_name]

ReturnedFalse == [status |-> "returned", success |-> FALSE, model_name |-> model_name]

\* The version is rejected by a non-empty stage filter, compared without case.
StageRejects(vr) ==
    /\ Len(self_stages) > 0
    /\ \A k \in 1..Len(self_stages) : Lower(self_stages[k]) # Lower(vr.current_stage)

\* The version is rejected by a non-empty version filter.
VersionRejects(vr) ==
    /\ Len(self_versions) > 0
    /\ \A k \in 1..Len(self_versions) : self_versions[k] # vr.version

Rejected(vr) == StageRejects(vr) \/ VersionRejects(vr)

VersionsOf(s) == { s[k].version : k \in 1..Len(s) }

Count(s, x) == Cardinality({ k \in 1..Len(s) : s[k] = x })

IsPermutation(s, t) ==
    /\ Len(s) = Len(t)
    /\ \A k \in 1..Len(s) : Count(s, s[k]) = Count(t, s[k])

SortedByVersionString(s) ==
    \A a, b \in 1..Len(s) : a < b => ~ StrLess(s[b].version, s[a].version)

IsPrefix(s, t) == Len(s) <= Len(t) /\ \A k \in 1..Len(s) : s[k] = t[k]

(***************************************************************************)
(* C1                                                                      *)
(***************************************************************************)
\* C1 as stated: every exception raised by a call made for a version is handled
\* inside the per-version block (a warning or a traceback is printed next and
\* the exception does not reach export_model's handler).
C1_AnyExceptionHandledInLoop ==
    \A k \in Idx :
        (trace[k].op \in PerVersionOps /\ trace[k].out # "ok")
        => /\ k < Len(trace)
           /\ trace[k + 1].op \in {"print_warning", "print_traceback"}

\* C1 amended: an exception of class RestException raised by a call made for a
\* version is handled inside the per-version block: a warning (run does not
\* exist) or a traceback (otherwise) is printed, the loop goes on with the next
\* version (or ends after the last one) and export_model has not returned; an exception of any other class
\* leaves the loop and makes export_model return (false, model_name).
C1_RestExceptionHandledInLoop ==
    \A k \in Idx :
        trace[k].op \in PerVersionOps =>
          /\ trace[k].out \in {"RestRunNotFound", "RestOther"} =>
               /\ k < Len(trace)
               /\ trace[k + 1].op = IF trace[k].out = "RestRunNotFound"
                                    THEN "print_warning" ELSE "print_traceback"
               /\ trace[k + 1].v = trace[k].v
               /\ k + 1 = Len(trace) =>
                    /\ pc \in {"loop", "get_registered_model"}
                    /\ result = NoResult
                    /\ i <= Len(versions) + 1
                    /\ \E m \in 1..(i - 1) : versions[m].version = trace[k].v
          /\ trace[k].out = "NonRest" =>
               /\ k + 1 = Len(trace)
               /\ trace[k + 1].op = "print_error"
               /\ pc = "done"
               /\ result = ReturnedFalse

\* A version failed with a RestException other than "run does not exist", a
\* later version was exported, and export_model returned true.
C1_Witness ==
    /\ result = ReturnedTrue
    /\ \E k, l \in Idx :
         /\ k < l
         /\ trace[k].op \in PerVersionOps /\ trace[k].out = "RestOther"
         /\ trace[l].op = "output_append"

(***************************************************************************)
(* C2                                                                      *)
(***************************************************************************)
\* C2: when get_run fails for a selected version with "RESOURCE_DOES_NOT_EXIST:
\* Run", a warning is printed, the version's record is in the manifest and not
\* in the output sequence; and if that is the only failure of the call, then at
\* the end every version that passes the filters is in the manifest, the output
\* sequence (and latest_versions of model.json) has one entry less than the
\* manifest, and export_model has returned (true, model_name).
C2_RunNotFoundDropsOnlyThatVersion ==
    \A k \in Idx :
        (trace[k].op = "get_run" /\ trace[k].out = "RestRunNotFound") =>
          /\ k < Len(trace)
          /\ trace[k + 1].op = "print_warning"
          /\ trace[k].v \in VersionsOf(manifest)
          /\ trace[k].v \notin VersionsOf(output_versions)
          /\ (pc = "done" /\ \A j \in Idx \ {k} : ~ FailedCall(j)) =>
               /\ result = ReturnedTrue
               /\ \A m \in 1..Len(versions) :
                    ~ Rejected(versions[m]) => versions[m].version \in VersionsOf(manifest)
               /\ Len(manifest) =
                    Cardinality({ m \in 1..Len(versions) : ~ Rejected(versions[m]) })
               /\ Len(output_versions) = Len(manifest) - 1
               /\ Len(model_json) = 1
               /\ Len(model_json[1].registered_model.latest_versions) = Len(manifest) - 1

\* Three selected versions, get_run failed for one with "run does not exist":
\* manifest of 3, output sequence of 2, (true, model_name).
C2_Witness ==
    /\ pc = "done"
    /\ result = ReturnedTrue
    /\ Len(manifest) = 3
    /\ Len(output_versions) = 2
    /\ \E k \in Idx : trace[k].op = "get_run" /\ trace[k].out = "RestRunNotFound"
                      /\ trace[k].v = v3

(***************************************************************************)
(* C3                                                                      *)
(***************************************************************************)
\* C3: export_model never lets an exception through; when it is over it has
\* returned a pair with the model_name it was given; a failed mkdirs,
\* search_model_versions, get_registered_model or write_json_file makes the
\* pair (false, model_name), and (true, model_name) implies none of them failed.
C3_NeverPropagates ==
    /\ result.status # "raised"
    /\ pc = "done" => (result.status = "returned" /\ result.model_name = model_name
                       /\ model_name \in ModelNames)
    /\ pc # "done" => result = NoResult
    /\ (\E k \in Idx : trace[k].op \in TopLevelOps /\ trace[k].out # "ok")
         => (pc = "done" /\ result = ReturnedFalse)
    /\ result.success => \A k \in Idx : trace[k].op \in TopLevelOps => trace[k].out = "ok"

\* A call that returned (false, model_name) because write_json_file raised an
\* exception that is no RestException.
C3_Witness ==
    /\ pc = "done"
    /\ result = ReturnedFalse
    /\ \E k \in Idx : trace[k].op = "write_json_file" /\ trace[k].out = "NonRest"

(***************************************************************************)
(* C4                                                                      *)
(***************************************************************************)
\* The stages argument is non-empty after normalization: a str (split always
\* gives at least one piece) or a non-empty list.
StagesGiven(stages) ==
    \/ stages.kind = "str"
    \/ stages.kind = "list" /\ Len(stages.list) > 0

VersionsGiven(vs) == ~ vs.none /\ Len(vs.list) > 0

\* C4: the constructor fails exactly when the stage filter and the version
\* filter are both non-empty after normalization, it otherwise gives an
\* exporter, and nothing can be done with a failed construction.
C4_ConstructionFailsIffBothFilters ==
    [][ /\ pc = "new" =>
             /\ pc' \in {"ctor_error", "ready"}
             /\ pc' = "ctor_error" <=>
                   (StagesGiven(args.stages) /\ VersionsGiven(args.versions))
             /\ pc' = "ready" => ~ (Len(self_stages') > 0 /\ Len(self_versions') > 0)
        /\ pc = "ctor_error" => FALSE
      ]_vars

\* A construction that failed with the stages given as a comma-separated str.
C4_Witness ==
    /\ pc = "ctor_error"
    /\ args.stages.kind = "str"
    /\ self_stages = <<sproduction, sarchived>>
    /\ Len(self_versions) > 0

(***************************************************************************)
(* C5                                                                      *)
(***************************************************************************)
\* C5: no record of the output sequence, and none of latest_versions in
\* model.json, belongs to a version that the stage filter (compared without
\* case) or the version filter rejects; num_dst_versions counts
\* latest_versions; and with versions [1:Production, 2:Archived], stages
\* ["production"] and no failure there is exactly one output entry, version 1,
\* with num_src_versions = 2 and num_dst_versions = 1.
C5_RejectedVersionNeverInOutput ==
    /\ \A k \in 1..Len(output_versions) : ~ Rejected(output_versions[k])
    /\ \A d \in 1..Len(model_json) :
         LET doc == model_json[d]
         IN  /\ \A k \in 1..Len(doc.registered_model.latest_versions) :
                  ~ Rejected(doc.registered_model.latest_versions[k])
             /\ doc.export_info.num_dst_versions =
                  Len(doc.registered_model.latest_versions)
    /\ ( /\ pc = "done"
         /\ \A j \in Idx : ~ FailedCall(j)
         /\ self_stages = <<sproduction>>
         /\ Len(versions) = 2
         /\ versions[1].version = v1 /\ versions[1].current_stage = sProduction
         /\ versions[2].version = v2 /\ versions[2].current_stage = sArchived )
       => /\ Len(model_json) = 1
          /\ VersionsOf(model_json[1].registered_model.latest_versions) = {v1}
          /\ Len(model_json[1].registered_model.latest_versions) = 1
          /\ model_json[1].export_info.num_src_versions = 2
          /\ model_json[1].export_info.num_dst_versions = 1

\* The scenario of C5 has run to its end.
C5_Witness ==
    /\ pc = "done"
    /\ result = ReturnedTrue
    /\ self_stages = <<sproduction>>
    /\ Len(versions) = 2
    /\ versions[1].version = v1 /\ versions[1].current_stage = sProduction
    /\ versions[2].version = v2 /\ versions[2].current_stage = sArchived
    /\ VersionsOf(output_versions) = {v1}

(***************************************************************************)
(* C6                                                                      *)
(***************************************************************************)
\* C6: no two records of the output sequence have the same version, every
\* record's version is one the registry returned, and in model.json
\* num_src_versions is the number of versions the registry returned,
\* num_dst_versions the length of latest_versions, and
\* num_dst_versions <= num_src_versions.
C6_OutputWithinRegistryResponse ==
    /\ \A a, b \in 1..Len(output_versions) :
         a # b => output_versions[a].version # output_versions[b].version
    /\ VersionsOf(output_versions) \subseteq VersionsOf(versions)
    /\ Len(output_versions) <= Len(versions)
    /\ \A d \in 1..Len(model_json) :
         LET doc == model_json[d]
         IN  /\ doc.export_info.num_src_versions = Len(versions)
             /\ doc.export_info.num_dst_versions =
                  Len(doc.registered_model.latest_versions)
             /\ doc.export_info.num_dst_versions <= doc.export_info.num_src_versions
             /\ VersionsOf(doc.registered_model.latest_versions)
                  \subseteq VersionsOf(versions)

\* A document written with a version filter active and one selected version
\* lost to a failure: 3 source versions, 2 selected, 1 exported.
C6_Witness ==
    /\ Len(model_json) = 1
    /\ Len(self_versions) = 2
    /\ model_json[1].export_info.num_src_versions = 3
    /\ Len(manifest) = 2
    /\ model_json[1].export_info.num_dst_versions = 1

(***************************************************************************)
(* C7                                                                      *)
(***************************************************************************)
\* C7: the sort at the end of the loop turns the records appended during the
\* loop into a permutation of them that ascends by version compared as a
\* string (so "10" stands before "2"), and latest_versions of the document
\* written is that sorted sequence.
C7_OutputSortedByVersionString ==
    [][ /\ (pc = "loop" /\ pc' = "get_registered_model") =>
             /\ IsPermutation(output_versions, output_versions')
             /\ SortedByVersionString(output_versions')
             /\ \A a, b \in 1..Len(output_versions') :
                  (output_versions'[a].version = v10 /\ output_versions'[b].version = v2)
                  => a < b
        /\ model_json' # model_json =>
             /\ model_json' = Append(model_json,
                                     model_json'[Len(model_json')])
             /\ model_json'[Len(model_json')].registered_model.latest_versions
                  = output_versions
             /\ SortedByVersionString(output_versions)
      ]_vars

\* The registry returned 2 before 10 and the document lists 10 before 2.
C7_Witness ==
    /\ Len(model_json) = 1
    /\ \E a, b \in 1..Len(versions) :
         a < b /\ versions[a].version = v2 /\ versions[b].version = v10
    /\ \E a, b \in 1..Len(model_json[1].registered_model.latest_versions) :
         /\ a < b
         /\ model_json[1].registered_model.latest_versions[a].version = v10
         /\ model_json[1].registered_model.latest_versions[b].version = v2

(***************************************************************************)
(* C8                                                                      *)
(***************************************************************************)
Reported(op, k) == \E j \in 1..(k - 1) : trace[j].op = op

\* C8 as stated: when get_registered_model or write_json_file fails, the number
\* of versions found and the number exported were both printed before; when
\* mkdirs fails, only the exception is printed.
C8_BothCountsBeforeLateFailure ==
    \A k \in Idx :
        /\ (trace[k].op \in {"get_registered_model", "write_json_file"}
            /\ trace[k].out # "ok")
           => (Reported("print_found", k) /\ Reported("print_exported", k))
        /\ (trace[k].op = "mkdirs" /\ trace[k].out # "ok")
           => (k = 1 /\ Len(trace) = 2 /\ trace[2].op = "print_error")

\* C8 amended: when write_json_file fails, the number of versions found and the
\* number exported were both printed before; when get_registered_model fails,
\* the number found was printed before and the number exported is never
\* printed; when mkdirs fails, only the exception is printed.
C8_CountsBeforeLateFailure ==
    \A k \in Idx :
        /\ (trace[k].op = "write_json_file" /\ trace[k].out # "ok")
           => (Reported("print_found", k) /\ Reported("print_exported", k))
        /\ (trace[k].op = "get_registered_model" /\ trace[k].out # "ok")
           => /\ Reported("print_found", k)
              /\ \A j \in Idx : trace[j].op # "print_exported"
              /\ k + 1 = Len(trace) /\ trace[k + 1].op = "print_error"
        /\ (trace[k].op = "mkdirs" /\ trace[k].out # "ok")
           => (k = 1 /\ Len(trace) = 2 /\ trace[2].op = "print_error")

\* write_json_file failed after both counts were printed.
C8_Witness ==
    /\ pc = "done"
    /\ \E k \in Idx : /\ trace[k].op = "write_json_file" /\ trace[k].out # "ok"
                      /\ Reported("print_exported", k)

(***************************************************************************)
(* C9                                                                      *)
(***************************************************************************)
\* A version of the registry's answer is dealt with in trace[1..k-1]: a filter
\* rejects it, or it was appended to the output, or its failure was handled.
DealtWithBefore(vr, k) ==
    \/ Rejected(vr)
    \/ \E j \in 1..(k - 1) :
         /\ trace[j].v = vr.version
         /\ trace[j].op \in {"output_append", "print_warning", "print_traceback"}

\* C9: write_json_file is called at most once in a call of export_model, after
\* every version of the registry's answer was processed or skipped and after
\* get_registered_model succeeded; no document is written without that call or
\* when the call fails at an earlier step; and (true, model_name) is returned
\* exactly when one document was written.
C9_ModelJsonWrittenOnceAtTheEnd ==
    /\ Cardinality({ k \in Idx : trace[k].op = "write_json_file" }) <= 1
    /\ Len(model_json) <= 1
    /\ \A k \in Idx :
         trace[k].op = "write_json_file" =>
           /\ \A m \in 1..Len(versions) : DealtWithBefore(versions[m], k)
           /\ \E j \in 1..(k - 1) :
                trace[j].op = "get_registered_model" /\ trace[j].out = "ok"
           /\ \A j \in 1..(k - 1) : ~ FailedCall(j) \/ trace[j].op \in PerVersionOps
    /\ (\A k \in Idx : ~ (trace[k].op = "write_json_file" /\ trace[k].out = "ok"))
         => model_json = <<>>
    /\ result.success <=> Len(model_json) = 1

\* A document was written although two versions failed and one was rejected.
C9_Witness ==
    /\ Len(model_json) = 1
    /\ Len(versions) = 3
    /\ \E m \in 1..3 : Rejected(versions[m])
    /\ \E k \in Idx : trace[k].op = "print_warning"
    /\ \E k \in Idx : trace[k].op = "print_traceback"

(***************************************************************************)
(* C10                                                                     *)
(***************************************************************************)
StepOps == {"manifest_append", "export_run", "get_run", "get_experiment",
            "output_append"}

\* The step the code takes right before op for the same version.
StepBefore(op) ==
    CASE op = "export_run"     -> "manifest_append"
      [] op = "get_run"        -> IF self_export_run THEN "export_run"
                                  ELSE "manifest_append"
      [] op = "get_experiment" -> "get_run"
      [] op = "output_append"  -> "get_experiment"

VersionRecord(v) == CHOOSE vr \in Catalogue : vr.version = v

\* The steps taken for version v, in order.
StepsOf(v) == SelectSeq(trace, LAMBDA e : e.v = v /\ e.op \in StepOps)

\* What C10 says of entry k of a trace tr.
StepInOrder(tr, k) ==
    /\ tr[k].op = "manifest_append" =>
         /\ ~ Rejected(VersionRecord(tr[k].v))
         /\ \A j \in 1..(k - 1) : ~ (tr[j].op = "manifest_append" /\ tr[j].v = tr[k].v)
    /\ tr[k].op \in StepOps \ {"manifest_append"} =>
         /\ k > 1
         /\ tr[k - 1].op = StepBefore(tr[k].op)
         /\ tr[k - 1].v = tr[k].v
         /\ tr[k - 1].out = "ok"
    /\ tr[k].op = "export_run" => self_export_run
    /\ tr[k].op \in {"export_run", "get_run"} => tr[k].arg = VersionRecord(tr[k].v).run_id
    /\ tr[k].op \in StepOps =>
         \A j \in 1..(k - 1) :
             ~ (tr[j].v = tr[k].v /\ tr[j].op \in PerVersionOps /\ tr[j].out # "ok")

\* C10: every step of the program only adds to what was done so far, and what
\* it adds is in order: a version is appended to the manifest at most once and
\* only if the filters accept it; every later step for a version (export_run,
\* only when export-run is enabled; get_run; get_experiment; the append to the
\* output sequence) comes right after the success of the step before it for the
\* same version, so each happens at most once and in this order; export_run
\* and get_run are given the version's run_id; after a failed call nothing
\* more is done for that version.
C10_PerVersionStepOrder ==
    [][ /\ IsPrefix(trace, trace')
        /\ \A k \in (Len(trace) + 1)..Len(trace') : StepInOrder(trace', k)
      ]_vars

\* With export-run disabled: one version fully exported through the four steps,
\* another rejected by the filter, a third stopped at a failed get_run.
C10_Witness ==
    /\ ~ self_export_run
    /\ pc = "done"
    /\ Len(versions) = 3
    /\ \E a, b, c \in Catalogue :
         /\ {a.version, b.version, c.version} = VersionsOf(versions)
         /\ Len(StepsOf(a.version)) = 4
         /\ Rejected(b) /\ StepsOf(b.version) = <<>>
         /\ Len(StepsOf(c.version)) = 2
         /\ StepsOf(c.version)[2].op = "get_run" /\ StepsOf(c.version)[2].out # "ok"

====
